---- MODULE Spec2Model ----
(***************************************************************************)
(* State-machine model of the expensify-be REST API: the Mongo             *)
(* collections (Category, CreditCard, BorrowedMoney, Payment, Expense) and *)
(* one action per route handler.  Money is counted in units of 0.01, the   *)
(* smallest amount the schemas accept (min: 0.01), so an amount is valid   *)
(* iff it is >= 1.  A handler runs to completion in one step (the          *)
(* single-writer view of the service), except in the section on repayments *)
(* served step by step, where every await of a handler ends a step.        *)
(***************************************************************************)
EXTENDS Integers, FiniteSets, Sequences, TLC

VARIABLES categories, creditCards, borrowedMoney, payments, expenses, nextId, res,
          inflight

vars == <<categories, creditCards, borrowedMoney, payments, expenses, nextId, res,
          inflight>>

(***************************************************************************)
(* Bounds of the model.                                                    *)
(***************************************************************************)
MaxDocs == 3

(***************************************************************************)
(* Authenticated callers (req.user._id supplied by the auth middleware).   *)
(***************************************************************************)
Users == {"u1", "u2"}

(***************************************************************************)
(* Values a request can carry in an id field.  Documents have ids 1, 2,    *)
(* ...; the other values are the shapes the handlers tell apart.           *)
(***************************************************************************)
Null == 0
Absent == 0 - 1
Empty == 0 - 2
Blank == 0 - 3
Malformed == 0 - 4
Ghost == 0 - 5

\* JavaScript truthiness of an id field: undefined, null and "" are falsy.
Truthy(x) == x \notin {Absent, Null, Empty}

\* mongoose.Types.ObjectId.isValid on a string: 24 hex characters.
isValidObjectId(x) == x >= 1 \/ x = Ghost

\* x.trim() === '' for a string field.
TrimIsEmpty(x) == x \in {Empty, Blank}

\* Amounts a request body can carry, in units of 0.01: 0 stands for a
\* missing, zero or negative amount (every one of them fails
\* `!amount || amount <= 0` and the schemas' min: 0.01).
AmountInputs == {0, 1, 2}

\* Dates are whole numbers; every modelled request is made at the date Now
\* and carries no date of its own (or, for a repayment, the date Now), so a
\* stored date is Now: `date || new Date()`.
Now == 1

\* defaultCategories of setup-defaults.
DefaultNames ==
  <<<<"F", "o", "o", "d", " ", "&", " ", "D", "i", "n", "i", "n", "g">>,
    <<"T", "r", "a", "n", "s", "p", "o", "r", "t", "a", "t", "i", "o", "n">>,
    <<"S", "h", "o", "p", "p", "i", "n", "g">>,
    <<"E", "n", "t", "e", "r", "t", "a", "i", "n", "m", "e", "n", "t">>,
    <<"H", "e", "a", "l", "t", "h", "c", "a", "r", "e">>,
    <<"U", "t", "i", "l", "i", "t", "i", "e", "s">>,
    <<"T", "r", "a", "v", "e", "l">>,
    <<"E", "d", "u", "c", "a", "t", "i", "o", "n">>,
    <<"G", "i", "f", "t", "s">>,
    <<"O", "t", "h", "e", "r">>>>

\* Creating requests served so far, over all collections: ids are never
\* reused, and one seeding of the default categories counts as one request.
Created ==
  LET seeded == Cardinality({c \in categories : c.is_default})
  IN (nextId.category - 1) + (nextId.card - 1) + (nextId.borrowed - 1)
       + (nextId.payment - 1) + (nextId.expense - 1)
       - seeded + (seeded \div Len(DefaultNames))

\* Ids a collection has handed out so far.
IdsOf(n) == 1 .. (n - 1)

RECURSIVE SumAmounts(_)
\* $group: { total: { $sum: '$amount' } } over a set of documents.
SumAmounts(S) ==
  IF S = {} THEN 0
  ELSE LET d == CHOOSE x \in S : TRUE IN d.amount + SumAmounts(S \ {d})

MinMutant(a, b) == a
Min(a, b) == IF a < b THEN a ELSE b

(***************************************************************************)
(* Document lookups.                                                       *)
(***************************************************************************)
FindOneMutant(coll, id, u) == {d \in coll : d.id = id}
FindOne(coll, id, u) == {d \in coll : d.id = id /\ d.user_id = u}
FindById(coll, id) == {d \in coll : d.id = id}

\* Payment.aggregate $match of the reconciliation: the caller's payments of
\* type 'borrowed' that reference the record.
BorrowedPaymentsOfMutant(ps, u, ref) == {}
BorrowedPaymentsOf(ps, u, ref) ==
  {p \in ps : p.user_id = u /\ p.type = "borrowed" /\ p.reference_id = ref}

(***************************************************************************)
(* BorrowedMoney                                                           *)
(***************************************************************************)
\* Status derivation of the save hook: the pure function of repaid_amount
\* and amount.
DerivedStatus(repaid, amount) ==
  IF repaid = 0 THEN "pending"
  ELSE IF repaid >= amount THEN "repaid"
  ELSE "partial"

\* borrowedMoneySchema.pre('save'): clamp repaid_amount, derive status.
BorrowedPreSave(doc) ==
  LET clamped == IF doc.repaid_amount > doc.amount THEN doc.amount
                 ELSE doc.repaid_amount
  IN [doc EXCEPT !.repaid_amount = clamped,
                 !.status = DerivedStatus(clamped, doc.amount)]

\* BorrowedMoney.findByIdAndUpdate(id, update): a $set of the given fields;
\* no save middleware runs.
SetRepaidMutant(bs, id, newRepaid) == bs
SetRepaid(bs, id, newRepaid) ==
  {IF b.id = id THEN [b EXCEPT !.repaid_amount = newRepaid] ELSE b : b \in bs}

SetRepaidAndStatus(bs, id, newRepaid, status) ==
  {IF b.id = id THEN [b EXCEPT !.repaid_amount = newRepaid, !.status = status]
   ELSE b : b \in bs}

\* POST /api/borrowed-money
CreateBorrowed(u, amount) ==
  /\ IF amount < 1
     THEN \* ValidationError from save(): caught, 500
          /\ res' = [op |-> "createBorrowed", status |-> 500]
          /\ UNCHANGED <<borrowedMoney, nextId>>
     ELSE /\ Created < MaxDocs
          /\ borrowedMoney' = borrowedMoney \cup
               {BorrowedPreSave([id |-> nextId.borrowed, user_id |-> u,
                                 type |-> "borrowed",
                                 amount |-> amount, repaid_amount |-> 0,
                                 status |-> "pending"])}
          /\ nextId' = [nextId EXCEPT !.borrowed = @ + 1]
          /\ res' = [op |-> "createBorrowed", status |-> 201]
  /\ UNCHANGED <<categories, creditCards, payments, expenses, inflight>>

\* PUT /api/borrowed-money/:id  (amount = Absent: the body has no amount)
UpdateBorrowed(u, id, amount) ==
  /\ IF amount # Absent /\ amount < 1
     THEN \* update validator min: 0.01 rejects: caught, 500
          /\ res' = [op |-> "updateBorrowed", status |-> 500]
          /\ UNCHANGED borrowedMoney
     ELSE IF FindOne(borrowedMoney, id, u) = {}
     THEN /\ res' = [op |-> "updateBorrowed", status |-> 404]
          /\ UNCHANGED borrowedMoney
     ELSE /\ borrowedMoney' =
               {IF b.id = id /\ amount # Absent THEN [b EXCEPT !.amount = amount]
                ELSE b : b \in borrowedMoney}
          /\ res' = [op |-> "updateBorrowed", status |-> 200]
  /\ UNCHANGED <<categories, creditCards, payments, expenses, nextId, inflight>>

\* Guard of the repay action: amount > remainingAmount.
RepayExceedsMutant(amount, b) == amount > b.amount
RepayExceeds(amount, b) == amount > b.amount - b.repaid_amount

\* newRepaidAmount of the repay action.
RepayNewRepaidMutant(amount, b) == amount
RepayNewRepaid(amount, b) == b.repaid_amount + amount

\* Response of the repay action: status, which message, and the
\* remaining_amount field when the body carries one.
RepayRes(status, msg, reports, remaining) ==
  [op |-> "repay", status |-> status, msg |-> msg,
   reports_remaining |-> reports, remaining_amount |-> remaining]

\* POST /api/borrowed-money/:id/repay
Repay(u, id, amount, hasDate) ==
  /\ IF amount <= 0
     THEN /\ res' = RepayRes(400, "amount", FALSE, 0)
          /\ UNCHANGED <<borrowedMoney, payments, nextId>>
     ELSE IF ~hasDate
     THEN /\ res' = RepayRes(400, "payment_date", FALSE, 0)
          /\ UNCHANGED <<borrowedMoney, payments, nextId>>
     ELSE IF FindOne(borrowedMoney, id, u) = {}
     THEN /\ res' = RepayRes(404, "not found", FALSE, 0)
          /\ UNCHANGED <<borrowedMoney, payments, nextId>>
     ELSE LET b == CHOOSE d \in FindOne(borrowedMoney, id, u) : TRUE
              remainingAmount == b.amount - b.repaid_amount
              newRepaidAmount == RepayNewRepaid(amount, b)
          IN
          IF RepayExceeds(amount, b)
          THEN /\ res' = RepayRes(400, "exceeds", TRUE, remainingAmount)
               /\ UNCHANGED <<borrowedMoney, payments, nextId>>
          ELSE /\ Created < MaxDocs
               /\ payments' = payments \cup
                    {[id |-> nextId.payment, user_id |-> u, type |-> "borrowed",
                      reference_id |-> id, amount |-> amount,
                 payment_date |-> Now]}
               /\ nextId' = [nextId EXCEPT !.payment = @ + 1]
               /\ borrowedMoney' = SetRepaidAndStatus(borrowedMoney, id, newRepaidAmount,
                    IF newRepaidAmount >= b.amount THEN "repaid" ELSE "partial")
               /\ res' = RepayRes(201, "ok", TRUE, b.amount - newRepaidAmount)
  /\ UNCHANGED <<categories, creditCards, expenses, inflight>>

\* DELETE /api/borrowed-money/:id
DeleteBorrowed(u, id) ==
  /\ IF FindOne(borrowedMoney, id, u) = {}
     THEN /\ res' = [op |-> "deleteBorrowed", status |-> 404]
          /\ UNCHANGED borrowedMoney
     ELSE IF BorrowedPaymentsOf(payments, u, id) # {}
     THEN /\ res' = [op |-> "deleteBorrowed", status |-> 400]
          /\ UNCHANGED borrowedMoney
     ELSE /\ borrowedMoney' = borrowedMoney \ FindById(borrowedMoney, id)
          /\ res' = [op |-> "deleteBorrowed", status |-> 200]
  /\ UNCHANGED <<categories, creditCards, payments, expenses, nextId, inflight>>

(***************************************************************************)
(* CreditCard                                                              *)
(***************************************************************************)
\* DELETE /api/credit-cards/:id
DeleteCard(u, id) ==
  /\ IF \E e \in expenses : e.credit_card_id = id /\ e.user_id = u
     THEN /\ res' = [op |-> "deleteCard", status |-> 400]
          /\ UNCHANGED creditCards
     ELSE IF FindOne(creditCards, id, u) = {}
     THEN /\ res' = [op |-> "deleteCard", status |-> 404]
          /\ UNCHANGED creditCards
     ELSE /\ creditCards' = creditCards \ FindOne(creditCards, id, u)
          /\ res' = [op |-> "deleteCard", status |-> 200]
  /\ UNCHANGED <<categories, borrowedMoney, payments, expenses, nextId, inflight>>

(***************************************************************************)
(* Expense                                                                 *)
(***************************************************************************)
\* payment_mode values of a request: "" is a missing (falsy) mode, "other"
\* a string outside the schema's enum.
ModeInputs == {"", "cash", "credit_card", "borrowed", "other"}
ModeEnum == {"cash", "credit_card", "borrowed"}

\* expenseSchema.pre('save'): the reference the payment mode requires is set.
ExpensePreSaveOk(doc) ==
  /\ ~(doc.payment_mode = "credit_card" /\ doc.credit_card_id = Null)
  /\ ~(doc.payment_mode = "borrowed" /\ doc.borrowed_id = Null)

\* cleanCreditCardId / cleanBorrowedId: x && x.trim() !== '' ? x : undefined
CleanId(x) == IF Truthy(x) /\ ~TrimIsEmpty(x) THEN x ELSE Absent

\* The value a new document stores for an ObjectId path given `x`
\* (undefined takes the schema default null).
StoredId(x) == IF x = Absent THEN Null ELSE x

\* The checks of POST /api/expenses on the reference its payment mode
\* requires: "ok" or the message of the check that answers 400.
ReferenceCheckMutant(u, mode, ccid, bid) == "ok"
ReferenceCheck(u, mode, ccid, bid) ==
  IF mode = "credit_card" /\ ~Truthy(ccid) THEN "credit card required"
  ELSE IF mode = "credit_card" /\ ~isValidObjectId(ccid) THEN "credit card format"
  ELSE IF mode = "credit_card" /\ FindOne(creditCards, ccid, u) = {}
  THEN "credit card not found"
  ELSE IF mode = "borrowed" /\ (~Truthy(bid) \/ TrimIsEmpty(bid))
  THEN "borrowed required"
  ELSE IF mode = "borrowed" /\ ~isValidObjectId(bid) THEN "borrowed format"
  ELSE IF mode = "borrowed" /\ FindOne(borrowedMoney, bid, u) = {}
  THEN "borrowed not found"
  ELSE "ok"

ExpenseRes(op, status, msg) == [op |-> op, status |-> status, msg |-> msg]

\* POST /api/expenses
CreateExpense(u, amount, cat, mode, ccid, bid) ==
  /\ LET doc == [id |-> nextId.expense, user_id |-> u, amount |-> amount,
                 category_id |-> cat, payment_mode |-> mode, date |-> Now,
                 credit_card_id |-> StoredId(CleanId(ccid)),
                 borrowed_id |-> StoredId(CleanId(bid))]
     IN
     IF amount <= 0
     THEN /\ res' = ExpenseRes("createExpense", 400, "amount")
          /\ UNCHANGED <<expenses, nextId>>
     ELSE IF ~Truthy(cat)
     THEN /\ res' = ExpenseRes("createExpense", 400, "category required")
          /\ UNCHANGED <<expenses, nextId>>
     ELSE IF mode = ""
     THEN /\ res' = ExpenseRes("createExpense", 400, "mode required")
          /\ UNCHANGED <<expenses, nextId>>
     ELSE IF ~isValidObjectId(cat)
     THEN /\ res' = ExpenseRes("createExpense", 400, "category format")
          /\ UNCHANGED <<expenses, nextId>>
     ELSE IF FindOne(categories, cat, u) = {}
     THEN /\ res' = ExpenseRes("createExpense", 400, "category not found")
          /\ UNCHANGED <<expenses, nextId>>
     ELSE IF ReferenceCheck(u, mode, ccid, bid) # "ok"
     THEN /\ res' = ExpenseRes("createExpense", 400,
                               ReferenceCheck(u, mode, ccid, bid))
          /\ UNCHANGED <<expenses, nextId>>
     ELSE IF \/ mode \notin ModeEnum
             \/ doc.credit_card_id = Malformed
             \/ doc.borrowed_id = Malformed
             \/ ~ExpensePreSaveOk(doc)
     THEN \* ValidationError, CastError or the save hook's Error: caught, 500
          /\ res' = ExpenseRes("createExpense", 500, "save")
          /\ UNCHANGED <<expenses, nextId>>
     ELSE /\ Created < MaxDocs
          /\ expenses' = expenses \cup {doc}
          /\ nextId' = [nextId EXCEPT !.expense = @ + 1]
          /\ res' = ExpenseRes("createExpense", 201, "ok")
  /\ UNCHANGED <<categories, creditCards, borrowedMoney, payments, inflight>>

\* updateData of PUT /api/expenses/:id for an id path: blank strings become
\* undefined, undefined and null pass through.
CleanUpdateId(x) ==
  IF x \notin {Absent, Null} /\ TrimIsEmpty(x) THEN Absent ELSE x

\* $set of one path by findByIdAndUpdate: an undefined key is dropped.
SetPath(old, x) == IF x = Absent THEN old ELSE x

\* PUT /api/expenses/:id  (mode = "": the body has no payment_mode;
\* owner = "": the body has no user_id).  updateData is the whole body, so a
\* user_id in it is written like any other path.
UpdateExpense(u, id, owner, cat, mode, ccid, bid) ==
  /\ IF FindOne(expenses, id, u) = {}
     THEN /\ res' = ExpenseRes("updateExpense", 404, "not found")
          /\ UNCHANGED expenses
     ELSE IF Truthy(cat) /\ ~isValidObjectId(cat)
     THEN /\ res' = ExpenseRes("updateExpense", 400, "category format")
          /\ UNCHANGED expenses
     ELSE IF Truthy(cat) /\ FindOne(categories, cat, u) = {}
     THEN /\ res' = ExpenseRes("updateExpense", 400, "category not found")
          /\ UNCHANGED expenses
     ELSE IF /\ mode = "credit_card" /\ Truthy(ccid)
             /\ (~isValidObjectId(ccid) \/ FindOne(creditCards, ccid, u) = {})
     THEN /\ res' = ExpenseRes("updateExpense", 400, "credit_card_id")
          /\ UNCHANGED expenses
     ELSE IF /\ mode = "borrowed" /\ Truthy(bid)
             /\ \/ TrimIsEmpty(bid)
                \/ ~isValidObjectId(bid)
                \/ FindOne(borrowedMoney, bid, u) = {}
     THEN /\ res' = ExpenseRes("updateExpense", 400, "borrowed_id")
          /\ UNCHANGED expenses
     ELSE IF \/ cat \in {Null, Empty}
             \/ mode = "other"
             \/ CleanUpdateId(ccid) = Malformed
             \/ CleanUpdateId(bid) = Malformed
     THEN \* update validators (required, enum) or CastError: caught, 500
          /\ res' = ExpenseRes("updateExpense", 500, "update")
          /\ UNCHANGED expenses
     ELSE /\ expenses' =
               {IF e.id = id
                THEN [e EXCEPT !.user_id = IF owner = "" THEN @ ELSE owner,
                               !.category_id = SetPath(@, cat),
                               !.payment_mode = IF mode = "" THEN @ ELSE mode,
                               !.credit_card_id = SetPath(@, CleanUpdateId(ccid)),
                               !.borrowed_id = SetPath(@, CleanUpdateId(bid))]
                ELSE e : e \in expenses}
          /\ res' = ExpenseRes("updateExpense", 200, "ok")
  /\ UNCHANGED <<categories, creditCards, borrowedMoney, payments, nextId, inflight>>

\* DELETE /api/expenses/:id
DeleteExpense(u, id) ==
  /\ IF FindOne(expenses, id, u) = {}
     THEN /\ res' = ExpenseRes("deleteExpense", 404, "not found")
          /\ UNCHANGED expenses
     ELSE /\ expenses' = expenses \ FindOne(expenses, id, u)
          /\ res' = ExpenseRes("deleteExpense", 200, "ok")
  /\ UNCHANGED <<categories, creditCards, borrowedMoney, payments, nextId, inflight>>

(***************************************************************************)
(* Category                                                                *)
(* A name is a sequence of characters.  The request names of the model use *)
(* letters and spaces only, so the RegExp built from a name has no         *)
(* metacharacter and matches literally.                                    *)
(***************************************************************************)
UpperCase == <<"A", "B", "C", "D", "E", "F", "G", "H", "I", "J", "K", "L", "M",
               "N", "O", "P", "Q", "R", "S", "T", "U", "V", "W", "X", "Y", "Z">>
LowerCase == <<"a", "b", "c", "d", "e", "f", "g", "h", "i", "j", "k", "l", "m",
               "n", "o", "p", "q", "r", "s", "t", "u", "v", "w", "x", "y", "z">>

\* Case folding of one character (the 'i' flag of the RegExp).
ToLower(ch) ==
  IF \E i \in 1 .. Len(UpperCase) : UpperCase[i] = ch
  THEN LowerCase[CHOOSE i \in 1 .. Len(UpperCase) : UpperCase[i] = ch]
  ELSE ch

\* new RegExp(`^${name}$`, 'i').test(stored)
RegexMatchesNoCase(name, stored) ==
  /\ Len(name) = Len(stored)
  /\ \A i \in 1 .. Len(name) : ToLower(name[i]) = ToLower(stored[i])

RECURSIVE TrimLeft(_)
TrimLeft(str) ==
  IF str # <<>> /\ Head(str) = " " THEN TrimLeft(Tail(str)) ELSE str

RECURSIVE TrimRight(_)
TrimRight(str) ==
  IF str # <<>> /\ str[Len(str)] = " "
  THEN TrimRight(SubSeq(str, 1, Len(str) - 1)) ELSE str

\* The schema's `trim: true` setter on name.
Trim(str) == TrimRight(TrimLeft(str))

\* Category.findOne({ name: { $regex }, user_id }) of the duplicate check;
\* `except` is the _id excluded by $ne (Ghost when none is).
ExistingCategory(cs, name, u, except) ==
  {c \in cs : c.user_id = u /\ c.id # except /\ RegexMatchesNoCase(name, c.name)}

\* The unique index { name: 1, user_id: 1 }: another document of the user
\* with exactly this stored name.
DuplicateKey(cs, name, u, except) ==
  \E c \in cs : c.user_id = u /\ c.id # except /\ c.name = name

\* POST /api/categories
CreateCategory(u, name) ==
  /\ IF ExistingCategory(categories, name, u, Ghost) # {}
     THEN /\ res' = [op |-> "createCategory", status |-> 400]
          /\ UNCHANGED <<categories, nextId>>
     ELSE IF Trim(name) = <<>>
     THEN \* required validator on the trimmed name: caught, 500
          /\ res' = [op |-> "createCategory", status |-> 500]
          /\ UNCHANGED <<categories, nextId>>
     ELSE IF DuplicateKey(categories, Trim(name), u, Ghost)
     THEN \* E11000 from the unique index: caught, 500
          /\ res' = [op |-> "createCategory", status |-> 500]
          /\ UNCHANGED <<categories, nextId>>
     ELSE /\ Created < MaxDocs
          /\ categories' = categories \cup
               {[id |-> nextId.category, user_id |-> u, name |-> Trim(name),
                 is_default |-> FALSE]}
          /\ nextId' = [nextId EXCEPT !.category = @ + 1]
          /\ res' = [op |-> "createCategory", status |-> 201]
  /\ UNCHANGED <<creditCards, borrowedMoney, payments, expenses, inflight>>

\* PUT /api/categories/:id  (hasName = FALSE: the body has no name)
UpdateCategory(u, id, hasName, name) ==
  /\ IF hasName /\ name # <<>> /\ ExistingCategory(categories, name, u, id) # {}
     THEN /\ res' = [op |-> "updateCategory", status |-> 400]
          /\ UNCHANGED categories
     ELSE IF hasName /\ Trim(name) = <<>>
     THEN \* required update validator: caught, 500
          /\ res' = [op |-> "updateCategory", status |-> 500]
          /\ UNCHANGED categories
     ELSE IF FindOne(categories, id, u) = {}
     THEN /\ res' = [op |-> "updateCategory", status |-> 404]
          /\ UNCHANGED categories
     ELSE IF hasName /\ DuplicateKey(categories, Trim(name), u, id)
     THEN \* E11000 from the unique index: caught, 500
          /\ res' = [op |-> "updateCategory", status |-> 500]
          /\ UNCHANGED categories
     ELSE /\ categories' =
               {IF c.id = id /\ hasName THEN [c EXCEPT !.name = Trim(name)] ELSE c :
                  c \in categories}
          /\ res' = [op |-> "updateCategory", status |-> 200]
  /\ UNCHANGED <<creditCards, borrowedMoney, payments, expenses, nextId, inflight>>

\* if (category.is_default): the category may not be deleted.
IsProtectedMutant(c) == FALSE
IsProtected(c) == c.is_default

\* DELETE /api/categories/:id
DeleteCategory(u, id) ==
  /\ IF FindOne(categories, id, u) = {}
     THEN /\ res' = [op |-> "deleteCategory", status |-> 404]
          /\ UNCHANGED categories
     ELSE IF IsProtected(CHOOSE c \in FindOne(categories, id, u) : TRUE)
     THEN /\ res' = [op |-> "deleteCategory", status |-> 400]
          /\ UNCHANGED categories
     ELSE /\ categories' = categories \ FindById(categories, id)
          /\ res' = [op |-> "deleteCategory", status |-> 200]
  /\ UNCHANGED <<creditCards, borrowedMoney, payments, expenses, nextId, inflight>>

\* POST /api/categories/setup-defaults
SetupDefaults(u) ==
  /\ IF {c \in categories : c.user_id = u} # {}
     THEN /\ res' = [op |-> "setupDefaults", status |-> 400]
          /\ UNCHANGED <<categories, nextId>>
     ELSE /\ Created < MaxDocs
          /\ categories' = categories \cup
               {[id |-> nextId.category + i - 1, user_id |-> u,
                 name |-> DefaultNames[i], is_default |-> TRUE] :
                  i \in 1 .. Len(DefaultNames)}
          /\ nextId' = [nextId EXCEPT !.category = @ + Len(DefaultNames)]
          /\ res' = [op |-> "setupDefaults", status |-> 200]
  /\ UNCHANGED <<creditCards, borrowedMoney, payments, expenses, inflight>>

(***************************************************************************)
(* CreditCard creation                                                     *)
(***************************************************************************)
Digits == {"0", "1", "2", "3", "4", "5", "6", "7", "8", "9"}

\* creditCardSchema.card_number: required, trimmed, /^\d{4}$/
CardNumberValid(v) ==
  LET t == Trim(v) IN Len(t) = 4 /\ \A i \in 1 .. Len(t) : t[i] \in Digits

\* creditCardSchema.due_date: required, min 1, max 31
DueDateValid(dd) == dd # Absent /\ dd >= 1 /\ dd <= 31

\* creditCardSchema.limit_amount: a Number with min 0 and default null.  The
\* validator admits no negative number, so null is stored as NullLimit.
NullLimit == -1

LimitValid(limit) == limit = NullLimit \/ limit >= 0

\* POST /api/credit-cards: a document that fails schema validation in save()
\* is answered 500 by the handler's catch.  A body without limit_amount, or
\* with a null one, is drawn as NullLimit.
CreateCardLimited(u, card_number, due_date, limit_amount) ==
  /\ IF \/ ~CardNumberValid(card_number)
        \/ ~DueDateValid(due_date)
        \/ ~LimitValid(limit_amount)
     THEN /\ res' = [op |-> "createCard", status |-> 500]
          /\ UNCHANGED <<creditCards, nextId>>
     ELSE /\ Created < MaxDocs
          /\ creditCards' = creditCards \cup {[id |-> nextId.card, user_id |-> u,
                                               limit_amount |-> limit_amount]}
          /\ nextId' = [nextId EXCEPT !.card = @ + 1]
          /\ res' = [op |-> "createCard", status |-> 201]
  /\ UNCHANGED <<categories, borrowedMoney, payments, expenses, inflight>>

\* POST /api/credit-cards with a body that has no limit_amount
CreateCardWith(u, card_number, due_date) ==
  CreateCardLimited(u, card_number, due_date, NullLimit)

\* POST /api/credit-cards with a well-formed body
CreateCard(u) == CreateCardWith(u, <<"1", "2", "3", "4">>, 15)

(***************************************************************************)
(* Payment                                                                 *)
(***************************************************************************)
PaymentTypes == {"credit_card", "borrowed", "other"}

\* Recompute-from-source step shared by PUT and DELETE /api/payments/:id.
RecomputeMutant(bs, ps, u, ref) == bs
Recompute(bs, ps, u, ref) ==
  IF FindById(bs, ref) = {} THEN bs
  ELSE LET borrowed == CHOOSE d \in FindById(bs, ref) : TRUE
           totalPaid == SumAmounts(BorrowedPaymentsOf(ps, u, ref))
       IN SetRepaid(bs, ref, Min(totalPaid, borrowed.amount))

\* POST /api/payments
CreatePayment(u, type, ref, amount) ==
  /\ LET req == [op |-> "createPayment"]
     IN
     IF ~isValidObjectId(ref)
     THEN /\ res' = req @@ [status |-> 400]
          /\ UNCHANGED <<borrowedMoney, payments, nextId>>
     ELSE IF type = "credit_card" /\ FindOne(creditCards, ref, u) = {}
     THEN /\ res' = req @@ [status |-> 400]
          /\ UNCHANGED <<borrowedMoney, payments, nextId>>
     ELSE IF type = "borrowed" /\ FindOne(borrowedMoney, ref, u) = {}
     THEN /\ res' = req @@ [status |-> 400]
          /\ UNCHANGED <<borrowedMoney, payments, nextId>>
     ELSE IF type \notin {"credit_card", "borrowed"}
     THEN /\ res' = req @@ [status |-> 400]
          /\ UNCHANGED <<borrowedMoney, payments, nextId>>
     ELSE IF amount < 1
     THEN \* ValidationError from payment.save(): caught, 500
          /\ res' = req @@ [status |-> 500]
          /\ UNCHANGED <<borrowedMoney, payments, nextId>>
     ELSE /\ Created < MaxDocs
          /\ payments' = payments \cup
               {[id |-> nextId.payment, user_id |-> u, type |-> type,
                 reference_id |-> ref, amount |-> amount,
                 payment_date |-> Now]}
          /\ nextId' = [nextId EXCEPT !.payment = @ + 1]
          /\ IF type = "borrowed"
             THEN LET borrowed == CHOOSE d \in FindById(borrowedMoney, ref) : TRUE
                  IN borrowedMoney' = SetRepaid(borrowedMoney, ref,
                       Min(borrowed.repaid_amount + amount, borrowed.amount))
             ELSE UNCHANGED borrowedMoney
          /\ res' = req @@ [status |-> 201]
  /\ UNCHANGED <<categories, creditCards, expenses, inflight>>

\* The update document { amount, payment_date, note, payment_method } of
\* PUT /api/payments/:id applied to a payment: an undefined amount leaves
\* the field alone.
ApplyPaymentUpdateMutant(payment, amount) ==
  [payment EXCEPT !.amount = IF amount = Absent THEN @ ELSE amount,
                  !.type = "credit_card"]
ApplyPaymentUpdate(payment, amount) ==
  IF amount = Absent THEN payment ELSE [payment EXCEPT !.amount = amount]

\* PUT /api/payments/:id  (amount = Absent: the body has no amount)
UpdatePayment(u, id, amount) ==
  /\ LET req == [op |-> "updatePayment"]
     IN
     IF amount # Absent /\ amount < 1
     THEN \* update validator min: 0.01 rejects: caught, 500
          /\ res' = req @@ [status |-> 500]
          /\ UNCHANGED <<borrowedMoney, payments>>
     ELSE IF FindOne(payments, id, u) = {}
     THEN /\ res' = req @@ [status |-> 404]
          /\ UNCHANGED <<borrowedMoney, payments>>
     ELSE LET old == CHOOSE p \in FindOne(payments, id, u) : TRUE
              payment == ApplyPaymentUpdate(old, amount)
              ps == (payments \ {old}) \cup {payment}
          IN /\ payments' = ps
             /\ borrowedMoney' = IF payment.type = "borrowed"
                                 THEN Recompute(borrowedMoney, ps, u, payment.reference_id)
                                 ELSE borrowedMoney
             /\ res' = req @@ [status |-> 200]
  /\ UNCHANGED <<categories, creditCards, expenses, nextId, inflight>>

\* DELETE /api/payments/:id
DeletePayment(u, id) ==
  /\ LET req == [op |-> "deletePayment"]
     IN
     IF FindOne(payments, id, u) = {}
     THEN /\ res' = req @@ [status |-> 404]
          /\ UNCHANGED <<borrowedMoney, payments>>
     ELSE LET payment == CHOOSE p \in FindOne(payments, id, u) : TRUE
              ps == payments \ FindById(payments, id)
          IN /\ payments' = ps
             /\ borrowedMoney' = IF payment.type = "borrowed"
                                 THEN Recompute(borrowedMoney, ps, u, payment.reference_id)
                                 ELSE borrowedMoney
             /\ res' = req @@ [status |-> 200]
  /\ UNCHANGED <<categories, creditCards, expenses, nextId, inflight>>

(***************************************************************************)
(* Specification of the repayment ledger: borrowed-money, repay and        *)
(* payment requests, from an empty store.                                  *)
(***************************************************************************)
\* Requests that are served step by step, one per slot.  A slot that is idle
\* remembers whether a request it served overlapped with one on another slot.
Slots == {"r1", "r2"}

Idle(overlapped) == [pc |-> "idle", overlapped |-> overlapped]

Init ==
  /\ inflight = [r \in Slots |-> Idle(FALSE)]
  /\ categories = {}
  /\ creditCards = {}
  /\ borrowedMoney = {}
  /\ payments = {}
  /\ expenses = {}
  /\ nextId = [category |-> 1, card |-> 1, borrowed |-> 1, payment |-> 1, expense |-> 1]
  /\ res = [op |-> "init", status |-> 0]

\* reference_id values of a payment request: a malformed string, a
\* well-formed id of no document, or the id of a card or record.
RefInputs == {Malformed, Ghost} \cup IdsOf(nextId.borrowed) \cup IdsOf(nextId.card)

\* Path ids of a request: an id the collection handed out, or a well-formed
\* id of no document.
BorrowedIdInputs == IdsOf(nextId.borrowed) \cup {Ghost}
PaymentIdInputs == IdsOf(nextId.payment) \cup {Ghost}

LedgerNext(U) ==
  \/ \E u \in U, a \in AmountInputs : CreateBorrowed(u, a)
  \/ \E u \in U, id \in BorrowedIdInputs, a \in AmountInputs \cup {Absent} :
       UpdateBorrowed(u, id, a)
  \/ \E u \in U, id \in BorrowedIdInputs, a \in AmountInputs, d \in BOOLEAN :
       Repay(u, id, a, d)
  \/ \E u \in U, id \in BorrowedIdInputs : DeleteBorrowed(u, id)
  \/ \E u \in U : CreateCard(u)
  \/ \E u \in U, t \in PaymentTypes, r \in RefInputs, a \in AmountInputs :
       CreatePayment(u, t, r, a)
  \/ \E u \in U, id \in PaymentIdInputs, a \in AmountInputs \cup {Absent} :
       UpdatePayment(u, id, a)
  \/ \E u \in U, id \in PaymentIdInputs : DeletePayment(u, id)

\* Requests of every caller.
LedgerSpec == Init /\ [][LedgerNext(Users)]_vars

\* Requests of one caller, the owner of every document.
OwnerLedgerSpec == Init /\ [][LedgerNext({"u1"})]_vars

(***************************************************************************)
(* Repayment ledger: claims                                                *)
(***************************************************************************)
\* The payments of type borrowed that reference record b.
PaymentsAgainst(b) ==
  {p \in payments : p.type = "borrowed" /\ p.reference_id = b.id}

\* C1: every BorrowedMoney record has 0 <= repaid_amount <= amount.
C1_RepaidWithinPrincipal ==
  \A b \in borrowedMoney : 0 <= b.repaid_amount /\ b.repaid_amount <= b.amount

\* C2: every BorrowedMoney record's status is the pure function of its
\* repaid_amount and amount (pending / partial / repaid).
C2_StatusIsDerived ==
  \A b \in borrowedMoney :
    b.status = (IF b.repaid_amount = 0 THEN "pending"
                ELSE IF b.repaid_amount < b.amount THEN "partial"
                ELSE "repaid")

\* C3: after every completed request, repaid_amount of each record equals
\* min(sum of the borrowed payments that reference it, amount).
C3_RepaidMatchesPayments ==
  \A b \in borrowedMoney :
    b.repaid_amount = Min(SumAmounts(PaymentsAgainst(b)), b.amount)

\* C6: a record that no Payment references any more has repaid_amount = 0
\* and status = pending.
C6_NoPaymentsMeansPending ==
  \A b \in borrowedMoney :
    PaymentsAgainst(b) = {} => b.repaid_amount = 0 /\ b.status = "pending"

\* The outcome C4 states for an over-limit repay of record b.
RejectedUnchanged(b) ==
  /\ res'.status = 400
  /\ res'.reports_remaining
  /\ res'.remaining_amount = b.amount - b.repaid_amount
  /\ payments' = payments
  /\ borrowedMoney' = borrowedMoney

\* C4 as stated: every repay request on a record of the caller whose amount
\* is greater than amount - repaid_amount is rejected with 400, stores no
\* Payment, leaves the record unchanged and reports the remaining amount it
\* had before the request.
C4_OverLimitRejected ==
  [][res'.op = "repay" =>
     \A u \in Users, id \in BorrowedIdInputs, a \in AmountInputs, d \in BOOLEAN :
       \A b \in FindOne(borrowedMoney, id, u) :
         (Repay(u, id, a, d) /\ a > b.amount - b.repaid_amount)
           => RejectedUnchanged(b)]_vars

\* C4 as amended: the same, for a repay request that carries a positive
\* amount and a payment_date.
C4_OverLimitRejectedWhenWellFormed ==
  [][res'.op = "repay" =>
     \A u \in Users, id \in BorrowedIdInputs, a \in AmountInputs :
       \A b \in FindOne(borrowedMoney, id, u) :
         (Repay(u, id, a, TRUE) /\ a > 0 /\ a > b.amount - b.repaid_amount)
           => RejectedUnchanged(b)]_vars

\* An over-limit repay was rejected on a partly repaid record.
C4_Witness ==
  /\ res.op = "repay" /\ res.status = 400 /\ res.msg = "exceeds"
  /\ \E b \in borrowedMoney :
       /\ 0 < b.repaid_amount /\ b.repaid_amount < b.amount
       /\ res.remaining_amount = b.amount - b.repaid_amount

\* The outcome C5 states for a repay of amount a on record b.
RepaidBy(b, a) ==
  LET newRepaid == b.repaid_amount + a
      after == [b EXCEPT !.repaid_amount = newRepaid,
                         !.status = IF newRepaid = b.amount THEN "repaid"
                                    ELSE "partial"]
  IN /\ res'.status = 201
     /\ res'.reports_remaining
     /\ res'.remaining_amount = b.amount - newRepaid
     /\ borrowedMoney' = (borrowedMoney \ {b}) \cup {after}
     /\ \E p \in payments' :
          /\ payments' = payments \cup {p}
          /\ p \notin payments
          /\ p.type = "borrowed" /\ p.reference_id = b.id /\ p.amount = a

NameInputs ==
  {<<"a">>, <<"A">>, <<" ", "a">>, <<"o", "t", "h", "e", "r">>, <<>>}

\* Path ids of a category request: a category created by POST, the last
\* seeded default of a user ("Other"), or a well-formed id of no document.
CategoryIdInputs ==
  {c.id : c \in {d \in categories : ~d.is_default}}
    \cup {c.id : c \in {d \in categories :
             /\ d.is_default
             /\ \A e \in categories :
                  (e.is_default /\ e.user_id = d.user_id) => e.id <= d.id}}
    \cup {Ghost}

CategoryNext(U) ==
  \/ \E u \in U, n \in NameInputs : CreateCategory(u, n)
  \/ \E u \in U, id \in CategoryIdInputs, h \in BOOLEAN, n \in NameInputs :
       UpdateCategory(u, id, h, n)
  \/ \E u \in U, id \in CategoryIdInputs : DeleteCategory(u, id)
  \/ \E u \in U : SetupDefaults(u)

CategorySpec == Init /\ [][CategoryNext(Users)]_vars

\* Requests of one caller to the categories routes.
OwnerCategorySpec == Init /\ [][CategoryNext({"u1"})]_vars

RECURSIVE LowerName(_)
\* A name with every character case-folded.
LowerName(str) ==
  IF str = <<>> THEN <<>> ELSE <<ToLower(Head(str))>> \o LowerName(Tail(str))

\* C10: no user owns two categories whose names are equal ignoring case.
C10_NamesUniquePerUser ==
  \A c1, c2 \in categories :
    (c1.id # c2.id /\ c1.user_id = c2.user_id)
      => LowerName(c1.name) # LowerName(c2.name)

(***************************************************************************)
(* Specification of the expenses routes, with the routes that create and   *)
(* delete the entities an expense refers to.                               *)
(***************************************************************************)
\* Values of an id field of an expense request.
CategoryRefInputs ==
  {Absent, Null, Empty, Blank, Malformed, Ghost} \cup IdsOf(nextId.category)
CardRefInputs ==
  {Absent, Null, Empty, Blank, Malformed, Ghost} \cup IdsOf(nextId.card)
BorrowedRefInputs ==
  {Absent, Null, Empty, Blank, Malformed, Ghost} \cup IdsOf(nextId.borrowed)

ExpenseIdInputs == IdsOf(nextId.expense) \cup {Ghost}
CardIdInputs == IdsOf(nextId.card) \cup {Ghost}

ExpenseBody(a, c, m, cc, b) ==
  [amount |-> a, category_id |-> c, payment_mode |-> m,
   credit_card_id |-> cc, borrowed_id |-> b]

\* The reference fields of a body: at most one of credit_card_id and
\* borrowed_id is present.
ReferenceInputs ==
  {<<cc, Absent>> : cc \in CardRefInputs}
    \cup {<<Absent, b>> : b \in BorrowedRefInputs}

\* Bodies of POST /api/expenses.  The handler returns at its first failing
\* check and reads no later field, so a body that fails on the amount, the
\* category or a missing mode is drawn with its later fields absent.
CreateExpenseInputs ==
  {ExpenseBody(0, Absent, "", Absent, Absent)}
    \cup {ExpenseBody(1, c, m, Absent, Absent) :
            c \in CategoryRefInputs, m \in {"", "cash"}}
    \cup {ExpenseBody(1, c, m, ref[1], ref[2]) :
            c \in IdsOf(nextId.category), m \in ModeInputs \ {""},
            ref \in ReferenceInputs}

\* Bodies of PUT /api/expenses/:id without a user_id: one that changes the
\* category, or one that changes the payment mode and the references.
UpdateExpenseInputs ==
  {ExpenseBody(Absent, c, "", Absent, Absent) : c \in CategoryRefInputs}
    \cup {ExpenseBody(Absent, Absent, m, ref[1], ref[2]) :
            m \in ModeInputs, ref \in ReferenceInputs}

\* The routes that create and delete expenses and the entities they refer to.
ExpenseCreateNext(U) ==
  \/ \E u \in U : CreateCategory(u, <<"a">>)
  \/ \E u \in U, id \in CategoryIdInputs : DeleteCategory(u, id)
  \/ \E u \in U : CreateCard(u)
  \/ \E u \in U, id \in CardIdInputs : DeleteCard(u, id)
  \/ \E u \in U : CreateBorrowed(u, 1)
  \/ \E u \in U, id \in BorrowedIdInputs : DeleteBorrowed(u, id)
  \/ \E u \in U, r \in CreateExpenseInputs :
       CreateExpense(u, r.amount, r.category_id, r.payment_mode,
                     r.credit_card_id, r.borrowed_id)
  \/ \E u \in U, id \in ExpenseIdInputs : DeleteExpense(u, id)

ExpenseUpdateNext(U) ==
  \/ \E u \in U, r \in UpdateExpenseInputs :
       /\ UpdateExpense(u, Ghost, "", r.category_id, r.payment_mode,
                        r.credit_card_id, r.borrowed_id)
       /\ r = ExpenseBody(Absent, Absent, "", Absent, Absent)
  \/ \E u \in U, id \in IdsOf(nextId.expense), r \in UpdateExpenseInputs :
       UpdateExpense(u, id, "", r.category_id, r.payment_mode,
                     r.credit_card_id, r.borrowed_id)

\* PUT /api/expenses/:id with a body that carries only a user_id.
ExpenseOwnerNext(U) ==
  \E u \in U, id \in ExpenseIdInputs, o \in Users :
    UpdateExpense(u, id, o, Absent, "", Absent, Absent)

ExpenseNext(U) == ExpenseCreateNext(U) \/ ExpenseUpdateNext(U)

\* Requests of every caller.
ExpenseSpec == Init /\ [][ExpenseNext(Users)]_vars

\* Requests of one caller to every route that POST /api/expenses depends on:
\* it reads the caller's categories, cards and borrowed records and never
\* an expense, so the update route adds no state it can tell apart.
OwnerExpenseCreateSpec == Init /\ [][ExpenseCreateNext({"u1"})]_vars

\* Requests of every caller that create and delete documents or hand an
\* expense a user_id.
OwnershipNext(U) == ExpenseCreateNext(U) \/ ExpenseOwnerNext(U)

OwnershipSpec == Init /\ [][OwnershipNext(Users)]_vars

(***************************************************************************)
(* Properties of the expenses routes                                       *)
(***************************************************************************)
\* Bodies of POST /api/expenses whose payment mode is credit_card with no
\* credit_card_id (absent, null or ""), or borrowed with no or a blank
\* borrowed_id; the other fields are arbitrary.
MissingReferenceBodies ==
  {ExpenseBody(a, c, "credit_card", cc, b) :
     a \in {0, 1}, c \in CategoryRefInputs,
     cc \in {Absent, Null, Empty}, b \in {Absent, Ghost}}
    \cup {ExpenseBody(a, c, "borrowed", cc, b) :
            a \in {0, 1}, c \in CategoryRefInputs,
            cc \in {Absent, Ghost}, b \in {Absent, Null, Empty, Blank}}

\* C7: in every reachable state, POST /expenses with payment_mode =
\* credit_card and no credit_card_id, or with payment_mode = borrowed and no
\* (or a blank) borrowed_id, can only answer 400 and leave the expenses as
\* they are.
C7_MissingReferenceRejected ==
  \A u \in Users, r \in MissingReferenceBodies :
    ~ENABLED (/\ CreateExpense(u, r.amount, r.category_id, r.payment_mode,
                               r.credit_card_id, r.borrowed_id)
              /\ ~(res'.status = 400 /\ expenses' = expenses))

\* A request with an owned category was answered by the check on the
\* missing credit card, in a state that holds an expense.
C7_Witness ==
  /\ res.op = "createExpense"
  /\ res.status = 400
  /\ res.msg = "credit card required"
  /\ expenses # {}

\* C8: every stored expense paid by credit card has a credit_card_id and
\* every stored expense paid with borrowed money has a borrowed_id.
C8_ModeHasReference ==
  \A e \in expenses :
    /\ e.payment_mode = "credit_card" => e.credit_card_id # Null
    /\ e.payment_mode = "borrowed" => e.borrowed_id # Null

\* C9: every non-null reference of a stored expense names an existing
\* entity owned by the owner of the expense.
C9_ReferencesOwned ==
  \A e \in expenses :
    /\ e.category_id # Null => FindOne(categories, e.category_id, e.user_id) # {}
    /\ e.credit_card_id # Null
         => FindOne(creditCards, e.credit_card_id, e.user_id) # {}
    /\ e.borrowed_id # Null
         => FindOne(borrowedMoney, e.borrowed_id, e.user_id) # {}

(***************************************************************************)
(* Properties of the categories routes                                     *)
(***************************************************************************)
\* C11: no request removes a default category or clears its is_default
\* flag, and DELETE /categories/:id on a default category of the caller
\* answers 400 and leaves the categories as they are.
C11_DefaultsNeverDeleted ==
  [][/\ \A c \in categories :
          c.is_default => \E d \in categories' :
                            d.id = c.id /\ d.user_id = c.user_id /\ d.is_default
     /\ res'.op = "deleteCategory" =>
          \A u \in Users, id \in CategoryIdInputs :
            (/\ DeleteCategory(u, id)
             /\ \E c \in FindOne(categories, id, u) : c.is_default)
              => (res'.status = 400 /\ categories' = categories)]_vars

\* A delete request on a seeded default category was answered 400.
C11_Witness ==
  /\ res.op = "deleteCategory"
  /\ res.status = 400
  /\ Cardinality({c \in categories : c.is_default}) = Len(DefaultNames)

DefaultsOf(cs, u) == {c \in cs : c.user_id = u /\ c.is_default}

\* C12: POST /categories/setup-defaults creates the 10 default categories
\* for a caller who owns no default category, answers 400 and creates
\* nothing for a caller who owns some, and no user owns more than 10.
C12_SeedsUnseededUser ==
  [][/\ \A u \in Users : Cardinality(DefaultsOf(categories', u)) <= Len(DefaultNames)
     /\ res'.op = "setupDefaults" =>
          \A u \in Users :
            SetupDefaults(u) =>
              IF DefaultsOf(categories, u) = {}
              THEN /\ res'.status = 200
                   /\ {c.name : c \in DefaultsOf(categories', u)}
                        = {DefaultNames[i] : i \in 1 .. Len(DefaultNames)}
                   /\ Cardinality(DefaultsOf(categories', u)) = Len(DefaultNames)
              ELSE /\ res'.status = 400
                   /\ categories' = categories]_vars

(***************************************************************************)
(* Properties of the delete routes                                         *)
(***************************************************************************)
\* C13: DELETE /credit-cards/:id on a card of the caller answers 400 and
\* keeps the card when some expense references the card, and deletes the
\* card when no expense references it.
C13_ReferencedCardKept ==
  [][res'.op = "deleteCard" =>
       \A u \in Users, id \in CardIdInputs :
         (DeleteCard(u, id) /\ FindOne(creditCards, id, u) # {})
           => IF \E e \in expenses : e.credit_card_id = id
              THEN res'.status = 400 /\ creditCards' = creditCards
              ELSE /\ res'.status = 200
                   /\ creditCards' = creditCards \ FindOne(creditCards, id, u)]_vars

NamesOwned(coll, ref, u) == \E d \in coll : d.id = ref /\ d.user_id = u

\* The reference of a payment request of `u` is good: it names a credit
\* card (type credit_card) or a BorrowedMoney record (type borrowed) of `u`.
GoodReference(u, type, ref) ==
  \/ type = "credit_card" /\ NamesOwned(creditCards, ref, u)
  \/ type = "borrowed" /\ NamesOwned(borrowedMoney, ref, u)

\* C15: in every reachable state, POST /payments whose reference_id names no
\* entity of the caller of the kind its type selects, or whose type is
\* neither credit_card nor borrowed, can only answer 400, store no payment
\* and change no BorrowedMoney record.
C15_BadReferenceRejected ==
  \A u \in Users, type \in PaymentTypes, ref \in RefInputs, a \in AmountInputs :
    ~GoodReference(u, type, ref)
      => ~ENABLED (/\ CreatePayment(u, type, ref, a)
                   /\ ~(/\ res'.status = 400
                        /\ payments' = payments
                        /\ borrowedMoney' = borrowedMoney))

\* A payment request was answered 400 in a state that holds a card, a
\* record and a payment.
C15_Witness ==
  /\ res.op = "createPayment"
  /\ res.status = 400
  /\ creditCards # {}
  /\ borrowedMoney # {}
  /\ payments # {}

\* The payments and borrowed-money routes with the routes that create and
\* delete credit cards.
PaymentNext(U) ==
  \/ LedgerNext(U)
  \/ \E u \in U, id \in IdsOf(nextId.card) \cup {Ghost} : DeleteCard(u, id)

PaymentSpec == Init /\ [][PaymentNext(Users)]_vars

\* C16: the reference_id of every stored payment names a stored entity of
\* the kind its type selects, owned by the owner of the payment.
C16_PaymentReferenceOwned ==
  \A p \in payments : GoodReference(p.user_id, p.type, p.reference_id)

(***************************************************************************)
(* Ownership                                                               *)
(***************************************************************************)
\* .populate(path): the referenced document, found by its _id alone (the
\* empty set is null).
Populate(e) ==
  [e EXCEPT !.category_id = FindById(categories, e.category_id),
            !.credit_card_id = FindById(creditCards, e.credit_card_id),
            !.borrowed_id = FindById(borrowedMoney, e.borrowed_id)]

\* GET /api/expenses without filters: the caller's expenses, populated.
GetExpenses(u) == {Populate(e) : e \in {x \in expenses : x.user_id = u}}

\* The documents `u` owns.
OwnedBy(u) ==
  <<{d \in categories : d.user_id = u}, {d \in creditCards : d.user_id = u},
    {d \in borrowedMoney : d.user_id = u}, {d \in payments : d.user_id = u},
    {d \in expenses : d.user_id = u}>>

\* C17: a step that changes the documents a user owns, or the result of
\* that user's GET /expenses, is a request of that user.
C17_NoCrossUserEffect ==
  [][\A b \in Users :
       (OwnedBy(b)' # OwnedBy(b) \/ GetExpenses(b)' # GetExpenses(b))
         => OwnershipNext({b})]_vars

(***************************************************************************)
(* Store failures.  No handler retries or rolls back: a store call that    *)
(* throws lands in the handler's catch, which answers 500 (spec section 5: *)
(* "any lookup/write failure surfaces immediately as a server error").     *)
(***************************************************************************)
\* The store call of a handler that throws: the first lookup, or the update
\* of the BorrowedMoney record that follows payment.save().
FailurePoints == {"lookup", "update"}

\* POST /api/payments, the run in which the store call `point` throws.
CreatePaymentStoreFails(u, type, ref, amount, point) ==
  /\ isValidObjectId(ref)
  /\ type \in {"credit_card", "borrowed"}
  /\ IF point = "lookup"
     THEN /\ res' = [op |-> "createPayment", status |-> 500]
          /\ UNCHANGED <<payments, nextId>>
     ELSE /\ type = "borrowed"
          /\ FindOne(borrowedMoney, ref, u) # {}
          /\ amount >= 1
          /\ Created < MaxDocs
          /\ payments' = payments \cup
               {[id |-> nextId.payment, user_id |-> u, type |-> type,
                 reference_id |-> ref, amount |-> amount,
                 payment_date |-> Now]}
          /\ nextId' = [nextId EXCEPT !.payment = @ + 1]
          /\ res' = [op |-> "createPayment", status |-> 500]
  /\ UNCHANGED <<categories, creditCards, borrowedMoney, expenses, inflight>>

\* POST /api/borrowed-money/:id/repay, the run in which the store call
\* `point` throws.
RepayStoreFails(u, id, amount, point) ==
  /\ amount > 0
  /\ IF point = "lookup"
     THEN /\ res' = RepayRes(500, "server error", FALSE, 0)
          /\ UNCHANGED <<payments, nextId>>
     ELSE /\ FindOne(borrowedMoney, id, u) # {}
          /\ ~RepayExceeds(amount, CHOOSE d \in FindOne(borrowedMoney, id, u) : TRUE)
          /\ Created < MaxDocs
          /\ payments' = payments \cup
               {[id |-> nextId.payment, user_id |-> u, type |-> "borrowed",
                 reference_id |-> id, amount |-> amount,
                 payment_date |-> Now]}
          /\ nextId' = [nextId EXCEPT !.payment = @ + 1]
          /\ res' = RepayRes(500, "server error", FALSE, 0)
  /\ UNCHANGED <<categories, creditCards, borrowedMoney, expenses, inflight>>

StoreFailureNext(U) ==
  \/ \E u \in U, type \in PaymentTypes, ref \in RefInputs, a \in AmountInputs,
        pt \in FailurePoints :
       CreatePaymentStoreFails(u, type, ref, a, pt)
  \/ \E u \in U, id \in BorrowedIdInputs, a \in AmountInputs, pt \in FailurePoints :
       RepayStoreFails(u, id, a, pt)

\* The payments and borrowed-money routes over a store that may fail.
FailingStoreSpec ==
  Init /\ [][LedgerNext(Users) \/ StoreFailureNext(Users)]_vars

\* C18: a request answered 400, 404 or 500 leaves every collection as it
\* was.
C18_ErrorLeavesStoreUnchanged ==
  [][res'.status \in {400, 404, 500}
       => UNCHANGED <<categories, creditCards, borrowedMoney, payments, expenses>>]_vars

(***************************************************************************)
(* Validation of request fields                                            *)
(***************************************************************************)
CardNumberInputs ==
  {<<"1", "2", "3", "4">>, <<" ", "1", "2", "3", "4">>, <<"1", "2", "3">>,
   <<"1", "2", "3", "4", "5">>, <<"1", "2", "a", "4">>, <<>>}
DueDateInputs == {Absent, 0, 1, 31, 32}

\* The payments, borrowed-money and credit-cards routes with bodies whose
\* fields may be missing, out of range or malformed.
ValidationNext(U) ==
  \/ LedgerNext(U)
  \/ \E u \in U, cn \in CardNumberInputs, dd \in DueDateInputs :
       CreateCardWith(u, cn, dd)

ValidationSpec == Init /\ [][ValidationNext(Users)]_vars

\* C19: a create request that carries a card_number that is not 4 digits, a
\* due_date outside 1..31 or missing, or a borrowed or payment amount <= 0,
\* is answered 400 and stores nothing.
C19_InvalidFieldIs400 ==
  [][/\ res'.op = "createCard" =>
          \A u \in Users, cn \in CardNumberInputs, dd \in DueDateInputs :
            (/\ CreateCardWith(u, cn, dd)
             /\ (~CardNumberValid(cn) \/ ~DueDateValid(dd)))
              => (res'.status = 400 /\ creditCards' = creditCards)
     /\ res'.op = "createBorrowed" =>
          \A u \in Users, a \in AmountInputs :
            (CreateBorrowed(u, a) /\ a <= 0)
              => (res'.status = 400 /\ borrowedMoney' = borrowedMoney)
     /\ res'.op = "createPayment" =>
          \A u \in Users, type \in PaymentTypes, ref \in RefInputs, a \in AmountInputs :
            (CreatePayment(u, type, ref, a) /\ a <= 0)
              => (res'.status = 400 /\ payments' = payments)]_vars

(***************************************************************************)
(* Aggregation reporters                                                   *)
(***************************************************************************)
\* filter.date = { $gte: start_date, $lte: end_date }, each bound optional.
InRange(date, start, end) ==
  /\ start = Absent \/ date >= start
  /\ end = Absent \/ date <= end

RECURSIVE SumRepaid(_)
\* $group: { total_repaid: { $sum: '$repaid_amount' } }
SumRepaid(S) ==
  IF S = {} THEN 0
  ELSE LET d == CHOOSE x \in S : TRUE IN d.repaid_amount + SumRepaid(S \ {d})

\* The body of GET /api/expenses/analytics/summary.  Each aggregation result
\* is held as the set of its groups: $sort and $limit: 12 choose an order and
\* at most 12 of them, and no more than MaxDocs groups exist.
Analytics(u, start, end) ==
  LET matched == {e \in expenses : e.user_id = u /\ InRange(e.date, start, end)}
      totalExpenses == IF matched = {} THEN {} ELSE {[total |-> SumAmounts(matched)]}
      ofCategory(c) == {e \in matched : e.category_id = c}
      ofMode(m) == {e \in matched : e.payment_mode = m}
      ofMonth(d) == {e \in matched : e.date = d}
  IN [summary |->
        [total_amount |-> IF totalExpenses = {} THEN 0
                          ELSE (CHOOSE t \in totalExpenses : TRUE).total,
         total_count |-> Cardinality(matched)],
      by_category |->
        {[id |-> c.id, total |-> SumAmounts(ofCategory(c.id)),
          count |-> Cardinality(ofCategory(c.id)), category_name |-> c.name] :
           c \in {d \in categories : ofCategory(d.id) # {}}},
      by_payment_mode |->
        {[id |-> m, total |-> SumAmounts(ofMode(m)), count |-> Cardinality(ofMode(m))] :
           m \in {e.payment_mode : e \in matched}},
      monthly_trend |->
        {[id |-> d, total |-> SumAmounts(ofMonth(d))] : d \in {e.date : e \in matched}}]

\* GET /api/expenses/analytics/summary
GetAnalytics(u, start, end) ==
  /\ res' = [op |-> "analytics", status |-> 200, body |-> Analytics(u, start, end)]
  /\ UNCHANGED <<categories, creditCards, borrowedMoney, payments, expenses, nextId, inflight>>

\* totals of GET /api/payments/summary/totals: both keys start at zero and
\* a group of the aggregation overwrites the key of its type.
PaymentTotalsMutant(u, start, end) ==
  LET matched == {p \in payments :
                    p.user_id = u /\ InRange(p.payment_date, start, end)}
      ofType(t) == {p \in matched : p.type = t}
  IN [t \in {p.type : p \in matched} |->
        [amount |-> SumAmounts(ofType(t)), count |-> Cardinality(ofType(t))]]
PaymentTotals(u, start, end) ==
  LET matched == {p \in payments :
                    p.user_id = u /\ InRange(p.payment_date, start, end)}
      ofType(t) == {p \in matched : p.type = t}
  IN [t \in {"credit_card", "borrowed"} |->
        IF ofType(t) = {} THEN [amount |-> 0, count |-> 0]
        ELSE [amount |-> SumAmounts(ofType(t)), count |-> Cardinality(ofType(t))]]

\* GET /api/payments/summary/totals
GetPaymentTotals(u, start, end) ==
  /\ res' = [op |-> "paymentTotals", status |-> 200,
             body |-> PaymentTotals(u, start, end)]
  /\ UNCHANGED <<categories, creditCards, borrowedMoney, payments, expenses, nextId, inflight>>

\* totals of GET /api/borrowed-money/summary/totals
BorrowedTotals(u) ==
  LET ofType(t) == {b \in borrowedMoney : b.user_id = u /\ b.type = t}
  IN [t \in {"borrowed", "lent"} |->
        IF ofType(t) = {}
        THEN [amount |-> 0, repaid |-> 0, remaining |-> 0, count |-> 0]
        ELSE [amount |-> SumAmounts(ofType(t)),
              repaid |-> SumRepaid(ofType(t)),
              remaining |-> SumAmounts(ofType(t)) - SumRepaid(ofType(t)),
              count |-> Cardinality(ofType(t))]]

\* GET /api/borrowed-money/summary/totals
GetBorrowedTotals(u) ==
  /\ res' = [op |-> "borrowedTotals", status |-> 200, body |-> BorrowedTotals(u)]
  /\ UNCHANGED <<categories, creditCards, borrowedMoney, payments, expenses, nextId, inflight>>

\* start_date and end_date of a report request.
DateInputs == {Absent, Now, Now + 1}

\* The reporters, with the routes that create what they aggregate.
ReportNext(U) ==
  \/ \E u \in U : CreateCategory(u, <<"a">>)
  \/ \E u \in U, id \in CategoryIdInputs : DeleteCategory(u, id)
  \/ \E u \in U : CreateCard(u)
  \/ \E u \in U : CreateBorrowed(u, 1)
  \/ \E u \in U, type \in PaymentTypes, ref \in RefInputs : CreatePayment(u, type, ref, 1)
  \/ \E u \in U, c \in IdsOf(nextId.category) \cup {Ghost} :
       CreateExpense(u, 1, c, "cash", Absent, Absent)
  \/ \E u \in U, s \in DateInputs, e \in DateInputs : GetAnalytics(u, s, e)
  \/ \E u \in U, s \in DateInputs, e \in DateInputs : GetPaymentTotals(u, s, e)
  \/ \E u \in U : GetBorrowedTotals(u)

ReportSpec == Init /\ [][ReportNext(Users)]_vars

StartOfMonth == Now - 1
EndOfMonth == Now + 1

\* The $match stage of the summary: the caller's expenses on the card, dated
\* within the month.
CurrentMonthExpenses(u, card) ==
  {e \in expenses : /\ e.user_id = u
                    /\ e.credit_card_id = card.id
                    /\ e.date >= StartOfMonth /\ e.date <= EndOfMonth}

\* available_limit of the summary: limit_amount is tested for truthiness
AvailableLimit(card, total) ==
  IF card.limit_amount # NullLimit /\ card.limit_amount # 0
  THEN card.limit_amount - total
  ELSE NullLimit

\* GET /api/credit-cards/:id
GetCard(u, id) ==
  /\ IF FindOne(creditCards, id, u) = {}
     THEN res' = [op |-> "getCard", status |-> 404]
     ELSE LET card == CHOOSE c \in FindOne(creditCards, id, u) : TRUE
              total == SumAmounts(CurrentMonthExpenses(u, card))
          IN res' = [op |-> "getCard", status |-> 200, id |-> id,
                     expenses |-> total,
                     count |-> Cardinality(CurrentMonthExpenses(u, card)),
                     available_limit |-> AvailableLimit(card, total)]
  /\ UNCHANGED <<categories, creditCards, borrowedMoney, payments, expenses, nextId, inflight>>

\* limit_amount of a POST /api/credit-cards body
LimitInputs == {NullLimit, -2, 0, 2}

\* The card summary, with the routes that create what it reads.
CardNext(U) ==
  \/ \E u \in U : CreateCategory(u, <<"a">>)
  \/ \E u \in U, limit \in LimitInputs :
       CreateCardLimited(u, <<"1", "2", "3", "4">>, 15, limit)
  \/ \E u \in U, a \in {1, 2}, c \in IdsOf(nextId.category),
        m \in {"cash", "credit_card"}, cc \in CardRefInputs :
       CreateExpense(u, a, c, m, cc, Absent)
  \/ \E u \in U, id \in ExpenseIdInputs : DeleteExpense(u, id)
  \/ \E u \in U, id \in CardIdInputs : GetCard(u, id)

CardSpec == Init /\ [][CardNext(Users)]_vars

\* C21: the summary of a card with a configured limit_amount (any value
\* >= 0) reports available_limit = limit_amount - (sum of the amounts of the
\* caller's expenses on the card dated within the current month), and reports
\* null only for a card without a configured limit.
C21_AvailableLimit ==
  \A u \in Users, c \in creditCards :
    c.user_id = u =>
      ~ENABLED (/\ GetCard(u, c.id)
                /\ ~(/\ res'.status = 200
                     /\ res'.available_limit
                          = IF c.limit_amount = NullLimit
                            THEN NullLimit
                            ELSE c.limit_amount
                                   - SumAmounts(CurrentMonthExpenses(u, c))))

(***************************************************************************)
(* Borrowed-money readers                                                  *)
(***************************************************************************)

\* GET /api/borrowed-money/:id.  An id that is no ObjectId makes findOne
\* reject with a CastError, which the handler's catch answers with 500.
GetBorrowedById(u, id) ==
  /\ IF ~isValidObjectId(id)
     THEN res' = [op |-> "getBorrowed", status |-> 500]
     ELSE IF FindOne(borrowedMoney, id, u) = {}
     THEN res' = [op |-> "getBorrowed", status |-> 404]
     ELSE LET b == CHOOSE d \in FindOne(borrowedMoney, id, u) : TRUE
          IN res' = [op |-> "getBorrowed", status |-> 200, id |-> id,
                     total_paid |-> b.repaid_amount,
                     total_remaining |-> b.amount - b.repaid_amount]
  /\ UNCHANGED <<categories, creditCards, borrowedMoney, payments, expenses, nextId, inflight>>

\* overdue_records of the '/overdue' handler: the caller's records with
\* status pending or partial, each with its remaining amount.
OverdueRecords(u) ==
  {[id |-> b.id, amount |-> b.amount, repaid_amount |-> b.repaid_amount,
    remaining_amount |-> b.amount - b.repaid_amount, status |-> b.status] :
     b \in {d \in borrowedMoney :
              d.user_id = u /\ d.status \in {"pending", "partial"}}}

\* The handler registered for GET '/overdue'.
OverdueHandler(u) ==
  /\ res' = [op |-> "overdue", status |-> 200,
             overdue_records |-> OverdueRecords(u),
             count |-> Cardinality(OverdueRecords(u))]
  /\ UNCHANGED <<categories, creditCards, borrowedMoney, payments, expenses, nextId, inflight>>

\* GET /api/borrowed-money/overdue.  The router tries its routes in the
\* order of registration: '/:id' is registered before '/overdue' and matches
\* the path with id 'overdue', which is no ObjectId, and its handler answers
\* without calling next().
GetOverdue(u) == GetBorrowedById(u, Malformed)

\* The ledger routes and the readers of borrowed-money records.
OverdueNext(U) ==
  \/ LedgerNext(U)
  \/ \E u \in U, id \in BorrowedIdInputs : GetBorrowedById(u, id)
  \/ \E u \in U : GetOverdue(u)

OverdueSpec == Init /\ [][OverdueNext(Users)]_vars

\* C22: GET /borrowed-money/overdue returns exactly the caller's records
\* whose status is pending or partial, each with remaining_amount = amount -
\* repaid_amount, and these are exactly the caller's records that are not
\* fully repaid (repaid_amount < amount).
C22_OverdueListsUnrepaid ==
  \A u \in Users :
    /\ ~ENABLED (/\ GetOverdue(u)
                 /\ ~(/\ res'.status = 200
                      /\ res'.overdue_records = OverdueRecords(u)))
    /\ {r.id : r \in OverdueRecords(u)}
         = {b.id : b \in {d \in borrowedMoney :
                            d.user_id = u /\ d.repaid_amount < d.amount}}

(***************************************************************************)
(* Reconciliation of repaid_amount: claims                                 *)
(***************************************************************************)

\* The records after the incremental rule was applied to record ref with a
\* payment of amount a.
AfterIncrement(ref, a) ==
  {IF b.id = ref
   THEN [b EXCEPT !.repaid_amount = IF b.repaid_amount + a < b.amount
                                    THEN b.repaid_amount + a
                                    ELSE b.amount]
   ELSE b : b \in borrowedMoney}

PaymentsReferencing(ps, ref) ==
  {q \in ps : q.type = "borrowed" /\ q.reference_id = ref}

\* Record ref exists in bs and its repaid_amount is the sum of the payments
\* of ps against it, capped at the principal.
Reconciled(bs, ps, ref) ==
  \E b \in bs :
    /\ b.id = ref
    /\ LET total == SumAmounts(PaymentsReferencing(ps, ref))
       IN b.repaid_amount = IF total < b.amount THEN total ELSE b.amount

\* C24: after a successful PUT /payments/:id or DELETE /payments/:id on a
\* payment of type borrowed, the referenced record's repaid_amount equals
\* min(sum of the amounts of all payments of type borrowed that reference
\* the record after the change, principal), whatever repaid_amount was
\* before the request.
C24_RecomputedFromPayments ==
  \A u \in Users, p \in payments :
    p.type = "borrowed" =>
      /\ \A a \in AmountInputs \cup {Absent} :
           ~ENABLED (/\ UpdatePayment(u, p.id, a)
                     /\ res'.status = 200
                     /\ ~Reconciled(borrowedMoney', payments', p.reference_id))
      /\ ~ENABLED (/\ DeletePayment(u, p.id)
                   /\ res'.status = 200
                   /\ ~Reconciled(borrowedMoney', payments', p.reference_id))

\* A payment was just updated on a record whose payments exceed the
\* principal: the recomputation capped repaid_amount, which
\* stands at the principal.
C24_Witness ==
  /\ res.op = "updatePayment"
  /\ res.status = 200
  /\ payments # {}
  /\ \A p \in payments : p.type = "borrowed"
  /\ \E b \in borrowedMoney :
       /\ SumAmounts(PaymentsReferencing(payments, b.id)) > b.amount
       /\ b.repaid_amount = b.amount

(***************************************************************************)
(* Repayments served step by step.  Each await of a handler ends a step,   *)
(* so the steps of two requests can interleave.  A request is only         *)
(* started when the document bound leaves room for its payment.            *)
(***************************************************************************)
Saving == {r \in Slots : inflight[r].pc \in {"repaySave", "paymentSave"}}

\* The request on slot r overlaps with a request on another slot.
Overlaps(r) ==
  inflight[r].overlapped \/ \E o \in Slots \ {r} : inflight[o].pc # "idle"

\* POST /api/borrowed-money/:id/repay up to the await of payment.save(): the
\* body checks, the findOne and the check against the remaining amount read
\* from the found document.
RepayBegin(r, u, id, amount, hasDate) ==
  /\ inflight[r].pc = "idle"
  /\ IF amount <= 0
     THEN /\ res' = RepayRes(400, "amount", FALSE, 0)
          /\ UNCHANGED inflight
     ELSE IF ~hasDate
     THEN /\ res' = RepayRes(400, "payment_date", FALSE, 0)
          /\ UNCHANGED inflight
     ELSE IF FindOne(borrowedMoney, id, u) = {}
     THEN /\ res' = RepayRes(404, "not found", FALSE, 0)
          /\ UNCHANGED inflight
     ELSE LET b == CHOOSE d \in FindOne(borrowedMoney, id, u) : TRUE
          IN
          IF RepayExceeds(amount, b)
          THEN /\ res' = RepayRes(400, "exceeds", TRUE, b.amount - b.repaid_amount)
               /\ UNCHANGED inflight
          ELSE /\ Created + Cardinality(Saving) < MaxDocs
               /\ inflight' = [inflight EXCEPT ![r] =
                    [pc |-> "repaySave", user_id |-> u, id |-> id,
                     amount |-> amount, borrowedMoney |-> b,
                     overlapped |-> Overlaps(r)]]
               /\ UNCHANGED res
  /\ UNCHANGED <<categories, creditCards, borrowedMoney, payments, expenses, nextId>>

\* await payment.save() of the repay action
RepaySave(r) ==
  /\ inflight[r].pc = "repaySave"
  /\ payments' = payments \cup
       {[id |-> nextId.payment, user_id |-> inflight[r].user_id,
         type |-> "borrowed", reference_id |-> inflight[r].id,
         amount |-> inflight[r].amount, payment_date |-> Now]}
  /\ nextId' = [nextId EXCEPT !.payment = @ + 1]
  /\ inflight' = [inflight EXCEPT ![r].pc = "repayUpdate"]
  /\ UNCHANGED <<categories, creditCards, borrowedMoney, expenses, res>>

\* The rest of the repay action: findByIdAndUpdate with the repaid amount
\* computed from the document read at the start, and the response.  When the
\* record is gone the update returns null and reading its amount throws.
RepayUpdate(r) ==
  /\ inflight[r].pc = "repayUpdate"
  /\ LET b == inflight[r].borrowedMoney
         newRepaidAmount == RepayNewRepaid(inflight[r].amount, b)
     IN
     IF FindById(borrowedMoney, inflight[r].id) = {}
     THEN /\ res' = [op |-> "repay", status |-> 500]
          /\ UNCHANGED borrowedMoney
     ELSE /\ borrowedMoney' = SetRepaidAndStatus(borrowedMoney, inflight[r].id,
               newRepaidAmount,
               IF newRepaidAmount >= b.amount THEN "repaid" ELSE "partial")
          /\ LET updated == CHOOSE d \in FindById(borrowedMoney', inflight[r].id) : TRUE
             IN res' = RepayRes(201, "ok", TRUE, updated.amount - updated.repaid_amount)
  /\ inflight' = [inflight EXCEPT ![r] = Idle(inflight[r].overlapped)]
  /\ UNCHANGED <<categories, creditCards, payments, expenses, nextId>>

\* POST /api/payments with type 'borrowed' up to the await of payment.save()
PaymentBegin(r, u, ref, amount) ==
  /\ inflight[r].pc = "idle"
  /\ IF ~isValidObjectId(ref) \/ FindOne(borrowedMoney, ref, u) = {}
     THEN /\ res' = [op |-> "createPayment", status |-> 400]
          /\ UNCHANGED inflight
     ELSE /\ Created + Cardinality(Saving) < MaxDocs
          /\ inflight' = [inflight EXCEPT ![r] =
               [pc |-> "paymentSave", user_id |-> u, id |-> ref,
                amount |-> amount, overlapped |-> Overlaps(r)]]
          /\ UNCHANGED res
  /\ UNCHANGED <<categories, creditCards, borrowedMoney, payments, expenses, nextId>>

\* await payment.save() of POST /api/payments: a ValidationError is caught
\* and answered 500.
PaymentSave(r) ==
  /\ inflight[r].pc = "paymentSave"
  /\ IF inflight[r].amount < 1
     THEN /\ res' = [op |-> "createPayment", status |-> 500]
          /\ inflight' = [inflight EXCEPT ![r] = Idle(inflight[r].overlapped)]
          /\ UNCHANGED <<payments, nextId>>
     ELSE /\ payments' = payments \cup
               {[id |-> nextId.payment, user_id |-> inflight[r].user_id,
                 type |-> "borrowed", reference_id |-> inflight[r].id,
                 amount |-> inflight[r].amount, payment_date |-> Now]}
          /\ nextId' = [nextId EXCEPT !.payment = @ + 1]
          /\ inflight' = [inflight EXCEPT ![r].pc = "paymentRead"]
          /\ UNCHANGED res
  /\ UNCHANGED <<categories, creditCards, borrowedMoney, expenses>>

\* await BorrowedMoney.findById(reference_id) of POST /api/payments; reading
\* repaid_amount of null throws, which is answered 500.
PaymentRead(r) ==
  /\ inflight[r].pc = "paymentRead"
  /\ IF FindById(borrowedMoney, inflight[r].id) = {}
     THEN /\ res' = [op |-> "createPayment", status |-> 500]
          /\ inflight' = [inflight EXCEPT ![r] = Idle(inflight[r].overlapped)]
     ELSE /\ inflight' = [inflight EXCEPT ![r] =
               [pc |-> "paymentUpdate", user_id |-> inflight[r].user_id,
                id |-> inflight[r].id, amount |-> inflight[r].amount,
                borrowedMoney |-> CHOOSE d \in FindById(borrowedMoney, inflight[r].id) : TRUE,
                overlapped |-> inflight[r].overlapped]]
          /\ UNCHANGED res
  /\ UNCHANGED <<categories, creditCards, borrowedMoney, payments, expenses, nextId>>

\* await BorrowedMoney.findByIdAndUpdate(reference_id, { repaid_amount }) of
\* POST /api/payments, and the response.
PaymentUpdate(r) ==
  /\ inflight[r].pc = "paymentUpdate"
  /\ LET borrowed == inflight[r].borrowedMoney
     IN borrowedMoney' = SetRepaid(borrowedMoney, inflight[r].id,
          Min(borrowed.repaid_amount + inflight[r].amount, borrowed.amount))
  /\ res' = [op |-> "createPayment", status |-> 201]
  /\ inflight' = [inflight EXCEPT ![r] = Idle(inflight[r].overlapped)]
  /\ UNCHANGED <<categories, creditCards, payments, expenses, nextId>>

Quiescent == \A r \in Slots : inflight[r].pc = "idle"

\* Repayments and borrowed payments of concurrent requests against the
\* records of one user.
RaceNext(U) ==
  \/ \E u \in U : CreateBorrowed(u, 2)
  \/ \E r \in Slots, u \in U, id \in BorrowedIdInputs, a \in AmountInputs,
        d \in BOOLEAN : RepayBegin(r, u, id, a, d)
  \/ \E r \in Slots : RepaySave(r)
  \/ \E r \in Slots : RepayUpdate(r)
  \/ \E r \in Slots, u \in U, ref \in BorrowedIdInputs \cup {Malformed},
        a \in AmountInputs : PaymentBegin(r, u, ref, a)
  \/ \E r \in Slots : PaymentSave(r)
  \/ \E r \in Slots : PaymentRead(r)
  \/ \E r \in Slots : PaymentUpdate(r)

RaceSpec == Init /\ [][RaceNext({"u1"})]_vars

\* The record's repaid_amount is behind min(sum of the stored payments
\* against it, principal).
LostUpdate(b) ==
  LET total == SumAmounts(PaymentsReferencing(payments, b.id))
  IN b.repaid_amount < (IF total < b.amount THEN total ELSE b.amount)

\* C25: the payment write and the record update are separate steps, so two
\* concurrent repay or payment-create requests against one record can
\* interleave with one request's repaid_amount update overwriting the
\* other's: with every request finished, a record's repaid_amount is below
\* min(sum of the stored payments, principal) only when requests overlapped
\* (and C25_Witness is such a state).
C25_LostUpdateNeedsOverlap ==
  (Quiescent /\ \E b \in borrowedMoney : LostUpdate(b))
    => \E r \in Slots : inflight[r].overlapped

\* Both requests have finished, both payments are stored against one record
\* and its repaid_amount is less than min(sum of the payments, principal).
C25_Witness ==
  /\ Quiescent
  /\ \E b \in borrowedMoney :
       /\ Cardinality(PaymentsReferencing(payments, b.id)) = 2
       /\ LostUpdate(b)

\* Records whose principal is never edited and whose payments are created
\* only through the repay action, by concurrent requests.
RepayRaceNext(U) ==
  \/ \E u \in U, a \in {1, 2} : CreateBorrowed(u, a)
  \/ \E r \in Slots, u \in U, id \in BorrowedIdInputs, a \in AmountInputs,
        d \in BOOLEAN : RepayBegin(r, u, id, a, d)
  \/ \E r \in Slots : RepaySave(r)
  \/ \E r \in Slots : RepayUpdate(r)

RepayRaceSpec == Init /\ [][RepayRaceNext(Users)]_vars

\* C26: when payments against a record are created only through the repay
\* action and the principal is never edited, the sum of the amounts of the
\* payments stored against the record never exceeds the principal, also
\* when several repay requests for the record run concurrently.
C26_PaymentsWithinPrincipal ==
  \A b \in borrowedMoney :
    SumAmounts(PaymentsReferencing(payments, b.id)) <= b.amount

\* The same bound in the states no overlapping requests have been served in.
C26_PaymentsWithinPrincipalWhenSerial ==
  (\A r \in Slots : ~inflight[r].overlapped /\ ~Overlaps(r))
    => C26_PaymentsWithinPrincipal

(***************************************************************************)
(* Frame of the update routes: claims                                      *)
(***************************************************************************)

\* C27: PUT /expenses/:id never changes the expense's owner: whatever fields
\* the request body contains, the stored expense's user_id after the request
\* equals its user_id before the request.
C27_UpdateKeepsOwner ==
  [][res'.op = "updateExpense"
       => \A e \in expenses, f \in expenses' :
            f.id = e.id => f.user_id = e.user_id]_vars

\* C28: PUT /payments/:id changes only the payment's amount, payment_date,
\* note and payment_method: the payment's type, reference_id and user_id are
\* unchanged, no other Payment changes, and the only BorrowedMoney record
\* whose repaid_amount may change is the one the payment references (no
\* other field of any record changes).
C28_UpdatePaymentFrame ==
  \A u \in Users, id \in PaymentIdInputs, a \in AmountInputs \cup {Absent} :
    ~ENABLED
      (/\ UpdatePayment(u, id, a)
       /\ ~(/\ {q.id : q \in payments'} = {p.id : p \in payments}
            /\ Cardinality(payments') = Cardinality(payments)
            /\ \A p \in payments, q \in payments' :
                 q.id = p.id =>
                   /\ q.type = p.type
                   /\ q.reference_id = p.reference_id
                   /\ q.user_id = p.user_id
                   /\ (p.id # id => q = p)
            /\ {c.id : c \in borrowedMoney'} = {b.id : b \in borrowedMoney}
            /\ Cardinality(borrowedMoney') = Cardinality(borrowedMoney)
            /\ \A b \in borrowedMoney, c \in borrowedMoney' :
                 c.id = b.id =>
                   /\ [c EXCEPT !.repaid_amount = b.repaid_amount] = b
                   /\ (c # b => \E p \in payments :
                                  /\ p.id = id
                                  /\ p.type = "borrowed"
                                  /\ p.reference_id = b.id)))

\* A payment against a record was just updated and the store holds another
\* payment and a record with a changed repaid_amount.
C28_Witness ==
  /\ res.op = "updatePayment"
  /\ res.status = 200
  /\ Cardinality(payments) = 2
  /\ \E b \in borrowedMoney :
       /\ PaymentsReferencing(payments, b.id) # {}
       /\ b.repaid_amount # 0
       /\ b.status = "pending"

(***************************************************************************)
(* Expense analytics: claims                                               *)
(***************************************************************************)
RECURSIVE SumTotals(_)
\* The sum of the totals of a set of groups.
SumTotals(G) ==
  IF G = {} THEN 0
  ELSE LET g == CHOOSE x \in G : TRUE IN g.total + SumTotals(G \ {g})

RECURSIVE SumCounts(_)
\* The sum of the counts of a set of groups.
SumCounts(G) ==
  IF G = {} THEN 0
  ELSE LET g == CHOOSE x \in G : TRUE IN g.count + SumCounts(G \ {g})

\* C29: in any reachable state the breakdowns of the expense analytics
\* partition the matched expenses: the by_category totals and the
\* by_payment_mode totals each sum to summary.total_amount, and the
\* corresponding counts each sum to summary.total_count.
C29_BreakdownsPartition ==
  \A u \in Users, s \in DateInputs, e \in DateInputs :
    ~ENABLED (/\ GetAnalytics(u, s, e)
              /\ ~(/\ res'.status = 200
                   /\ SumTotals(res'.body.by_category)
                        = res'.body.summary.total_amount
                   /\ SumCounts(res'.body.by_category)
                        = res'.body.summary.total_count
                   /\ SumTotals(res'.body.by_payment_mode)
                        = res'.body.summary.total_amount
                   /\ SumCounts(res'.body.by_payment_mode)
                        = res'.body.summary.total_count))

\* The same for the by_payment_mode breakdown alone.
C29_ModesPartition ==
  \A u \in Users, s \in DateInputs, e \in DateInputs :
    LET body == Analytics(u, s, e)
    IN /\ SumTotals(body.by_payment_mode) = body.summary.total_amount
       /\ SumCounts(body.by_payment_mode) = body.summary.total_count

====
